---- MODULE Spec2Model ----
(***************************************************************************)
(* Configuration ingestion (ConfigValidator, ConfigLoader, Config), the    *)
(* resource registry (Resources) and the part of ThemeManager that writes  *)
(* to the configuration map, of YounesRabeh/document-mapper.               *)
(*                                                                         *)
(* Strings are sequences of one-character strings, so that lower(),        *)
(* upper(), isupper(), int(), startswith(), replace() and the path         *)
(* operations are computed character by character, as Python computes them. *)
(***************************************************************************)
EXTENDS Integers, Sequences, FiniteSets, TLC

(***************************************************************************)
(* Python str operations                                                   *)
(***************************************************************************)
LowerAlpha ==
    << "a","b","c","d","e","f","g","h","i","j","k","l","m",
       "n","o","p","q","r","s","t","u","v","w","x","y","z" >>

UpperAlpha ==
    << "A","B","C","D","E","F","G","H","I","J","K","L","M",
       "N","O","P","Q","R","S","T","U","V","W","X","Y","Z" >>

Digits == << "0","1","2","3","4","5","6","7","8","9" >>

IsLowerChar(c) == \E i \in 1..Len(LowerAlpha) : LowerAlpha[i] = c
IsUpperChar(c) == \E i \in 1..Len(UpperAlpha) : UpperAlpha[i] = c
IsDigitChar(c) == \E i \in 1..Len(Digits) : Digits[i] = c

CharIndex(c, alpha) == CHOOSE i \in 1..Len(alpha) : alpha[i] = c

\* str.lower() / str.upper(), on the ASCII letters the model's strings hold
LowerChar(c) == IF IsUpperChar(c) THEN LowerAlpha[CharIndex(c, UpperAlpha)] ELSE c
UpperChar(c) == IF IsLowerChar(c) THEN UpperAlpha[CharIndex(c, LowerAlpha)] ELSE c
StrLower(s) == [i \in 1..Len(s) |-> LowerChar(s[i])]
StrUpper(s) == [i \in 1..Len(s) |-> UpperChar(s[i])]

\* str.isupper(): at least one cased character, and no lower-case one
StrIsUpper(s) ==
    /\ \E i \in 1..Len(s) : IsUpperChar(s[i])
    /\ \A i \in 1..Len(s) : ~IsLowerChar(s[i])

\* str.startswith(p)
StartsWith(s, p) == Len(p) <= Len(s) /\ SubSeq(s, 1, Len(p)) = p

\* "sub in s"
Contains(s, sub) ==
    \E i \in 1..(Len(s) - Len(sub) + 1) : SubSeq(s, i, i + Len(sub) - 1) = sub

\* str.strip() of blanks
RECURSIVE StripLeft(_)
StripLeft(s) == IF s # << >> /\ Head(s) = " " THEN StripLeft(Tail(s)) ELSE s
RECURSIVE StripRight(_)
StripRight(s) ==
    IF s # << >> /\ s[Len(s)] = " " THEN StripRight(SubSeq(s, 1, Len(s) - 1)) ELSE s
Strip(s) == StripRight(StripLeft(s))

(***************************************************************************)
(* Results of a call: a value, or the exception raised                     *)
(***************************************************************************)
Ok(v)      == [ok |-> TRUE, val |-> v]
Raise(exc) == [ok |-> FALSE, exc |-> exc]

\* Python values a configuration entry can hold
BoolV(b) == [kind |-> "bool", b |-> b]
IntV(n)  == [kind |-> "int", n |-> n]
StrV(s)  == [kind |-> "str", s |-> s]
EnumV(cls, tag) == [kind |-> "enum", cls |-> cls, tag |-> tag]

(***************************************************************************)
(* core.enums.log_level.LogLevel and core.enums.app_themes.AppTheme: the   *)
(* members' values, looked up by Enum(value)                               *)
(***************************************************************************)
LogLevelValues ==
    { <<"D","E","B","U","G">>, <<"I","N","F","O">>,
      <<"W","A","R","N","I","N","G">>, <<"E","R","R","O","R">>,
      <<"C","R","I","T","I","C","A","L">> }

AppThemeValues ==
    { <<"L","I","G","H","T">>, <<"D","A","R","K">>, <<"A","U","T","O">> }

(***************************************************************************)
(* ConfigValidator                                                         *)
(***************************************************************************)
\* int(value): blanks stripped, an optional sign, digits with single
\* underscores between them; NoInt when int() raises ValueError
NoInt == [isInt |-> FALSE]

DigitsOk(d) ==
    /\ d # << >>
    /\ IsDigitChar(d[1]) /\ IsDigitChar(d[Len(d)])
    /\ \A i \in 1..Len(d) : IsDigitChar(d[i]) \/ d[i] = "_"
    /\ \A i \in 1..(Len(d) - 1) : ~(d[i] = "_" /\ d[i + 1] = "_")

RECURSIVE DigitsValue(_)
DigitsValue(d) ==
    IF d = << >> THEN 0
    ELSE IF d[Len(d)] = "_" THEN DigitsValue(SubSeq(d, 1, Len(d) - 1))
    ELSE DigitsValue(SubSeq(d, 1, Len(d) - 1)) * 10 + (CharIndex(d[Len(d)], Digits) - 1)

PyInt(value) ==
    LET t == Strip(value)
        signed == t # << >> /\ t[1] \in {"+", "-"}
        d == IF signed THEN Tail(t) ELSE t
    IN  IF ~DigitsOk(d) THEN NoInt
        ELSE [isInt |-> TRUE,
              n |-> IF signed /\ t[1] = "-" THEN 0 - DigitsValue(d) ELSE DigitsValue(d)]

\* mutant: zero accepted (>= 0 in place of > 0)
ensure_positive_int_ZeroAccepted(value) ==
    LET i == PyInt(value)
    IN  IF i.isInt /\ i.n >= 0 THEN Ok(IntV(i.n)) ELSE Raise("ValueError")

ensure_positive_int(value) ==
    LET i == PyInt(value)
    IN  IF i.isInt /\ i.n > 0 THEN Ok(IntV(i.n)) ELSE Raise("ValueError")

TruthyTokens == { <<"t","r","u","e">>, <<"y","e","s">>, <<"1">>, <<"o","n">> }
FalsyTokens  == { <<"f","a","l","s","e">>, <<"n","o">>, <<"0">>, <<"o","f","f">> }

\* mutant: the tokens compared as given, without lower()
ensure_boolean_CaseSensitive(value) ==
    IF value \in TruthyTokens THEN Ok(BoolV(TRUE))
    ELSE IF value \in FalsyTokens THEN Ok(BoolV(FALSE))
    ELSE Raise("ValueError")

ensure_boolean(value) ==
    IF StrLower(value) \in TruthyTokens THEN Ok(BoolV(TRUE))
    ELSE IF StrLower(value) \in FalsyTokens THEN Ok(BoolV(FALSE))
    ELSE Raise("ValueError")

ensure_string(value) == Ok(StrV(value))

\* mutant: LogLevel(level), without upper()
parse_log_level_AsGiven(level) ==
    IF level \in LogLevelValues THEN Ok(EnumV("LogLevel", level)) ELSE Raise("ValueError")

parse_log_level(level) ==
    IF StrUpper(level) \in LogLevelValues
    THEN Ok(EnumV("LogLevel", StrUpper(level)))
    ELSE Raise("ValueError")

\* mutant: AppTheme(mode), without upper()
parse_theme_mode_AsGiven(mode) ==
    IF mode \in AppThemeValues THEN Ok(EnumV("AppTheme", mode)) ELSE Raise("ValueError")

parse_theme_mode(mode) ==
    IF StrUpper(mode) \in AppThemeValues
    THEN Ok(EnumV("AppTheme", StrUpper(mode)))
    ELSE Raise("ValueError")


(***************************************************************************)
(* pathlib: Path(value), expanduser(), resolve(), suffix, exists(), mkdir  *)
(***************************************************************************)
CWD      == <<"/","w">>
HomeDir  == <<"/","h">>
MEIPASS  == <<"/","m">>

RECURSIVE SplitAcc(_, _, _)
SplitAcc(s, cur, acc) ==
    IF s = << >> THEN Append(acc, cur)
    ELSE IF Head(s) = "/" THEN SplitAcc(Tail(s), << >>, Append(acc, cur))
    ELSE SplitAcc(Tail(s), Append(cur, Head(s)), acc)

\* Path(s).parts without the root: empty and "." components are dropped
Parts(s) == SelectSeq(SplitAcc(s, << >>, << >>), LAMBDA c : c # << >> /\ c # <<".">>)

IsAbsolute(s) == s # << >> /\ s[1] = "/"

RECURSIVE PathStr(_)
PathStr(parts) ==
    IF parts = << >> THEN << >>
    ELSE <<"/">> \o Head(parts) \o PathStr(Tail(parts))

\* str() of an absolute path with these parts
AbsStr(parts) == IF parts = << >> THEN <<"/">> ELSE PathStr(parts)

\* ".." components removed against their parent (no symbolic links)
RECURSIVE DotDot(_, _)
DotDot(parts, acc) ==
    IF parts = << >> THEN acc
    ELSE IF Head(parts) = <<".",".">>
         THEN DotDot(Tail(parts), IF acc = << >> THEN acc ELSE SubSeq(acc, 1, Len(acc) - 1))
         ELSE DotDot(Tail(parts), Append(acc, Head(parts)))

\* Path(s).expanduser(): a leading "~" component is the home directory
ExpandUser(s) ==
    IF ~IsAbsolute(s) /\ Parts(s) # << >> /\ Head(Parts(s)) = <<"~">>
    THEN AbsStr(Parts(HomeDir) \o Tail(Parts(s)))
    ELSE s

\* Path(s).resolve(): absolute (against the current directory), normalized
Resolve(s) ==
    IF IsAbsolute(s) THEN AbsStr(DotDot(Parts(s), << >>))
    ELSE AbsStr(DotDot(Parts(CWD) \o Parts(s), << >>))

\* Path(a) / b
JoinPath(a, b) == IF IsAbsolute(b) THEN b ELSE a \o <<"/">> \o b

\* Path(s).name and Path(s).suffix
PathName(s) == IF Parts(s) = << >> THEN << >> ELSE Parts(s)[Len(Parts(s))]

HasSuffix(s) ==
    LET name == PathName(s)
    IN  \E i \in 2..(Len(name) - 1) :
            name[i] = "." /\ \A j \in (i + 1)..Len(name) : name[j] # "."

\* str(Path(s)): separators and "." components normalized, nothing resolved
RECURSIVE RelStr(_)
RelStr(parts) ==
    IF Len(parts) = 1 THEN Head(parts)
    ELSE Head(parts) \o <<"/">> \o RelStr(Tail(parts))

PathNormStr(s) ==
    IF IsAbsolute(s) THEN AbsStr(Parts(s))
    ELSE IF Parts(s) = << >> THEN <<".">>
    ELSE RelStr(Parts(s))

\* the path itself and the directories above it
Ancestors(p) ==
    LET parts == Parts(p)
    IN  { AbsStr(SubSeq(parts, 1, i)) : i \in 0..Len(parts) }

\* directories that exist before the program runs
BaseDirs(isBundled) ==
    Ancestors(CWD) \cup Ancestors(HomeDir) \cup (IF isBundled THEN Ancestors(MEIPASS) ELSE {})

\* Path(p).exists() for a resolved absolute p: a directory the model tracks, a
\* regular file, or a directory that holds a regular file
PathExists(p, dirs, files) ==
    p \in dirs \/ p \in files \/ \E f \in files : p \in Ancestors(f)

\* Path(p).mkdir(parents=True, exist_ok=True): the directories it adds, or the
\* OSError it raises when a file is in the way
Mkdir(p, dirs, files) ==
    IF Ancestors(p) \cap files # {} THEN Raise("OSError")
    ELSE Ok(Ancestors(p) \ dirs)

\* validate_file_path(path, must_exist=False)
validate_file_path(path, must_exist, dirs, files) ==
    IF must_exist /\ ~PathExists(Resolve(path), dirs, files) THEN Raise("ValueError")
    ELSE Ok(StrV(PathNormStr(path)))

\* validate_directory_path(path, create_if_missing): result and directories made
validate_directory_path(path, create_if_missing, dirs, files) ==
    IF create_if_missing /\ ~PathExists(Resolve(path), dirs, files)
    THEN LET m == Mkdir(Resolve(path), dirs, files)
         IN  IF m.ok THEN [res |-> Ok(StrV(PathNormStr(path))), made |-> m.val]
             ELSE [res |-> m, made |-> {}]
    ELSE [res |-> Ok(StrV(PathNormStr(path))), made |-> {}]

(***************************************************************************)
(* ConfigLoader                                                            *)
(***************************************************************************)
K_LOG_LEVEL  == <<"L","O","G","_","L","E","V","E","L">>
K_THEME_MODE == <<"T","H","E","M","E","_","M","O","D","E">>

PathWords == { <<"P","A","T","H">>, <<"D","I","R">>, <<"F","I","L","E">> }

NoFile == [exists |-> FALSE]
FileOf(vars) == [exists |-> TRUE, vars |-> vars]

\* load_dotenv(dotenv_path): the file's variables, those already set kept
LoadDotenv(environ, file) ==
    [k \in DOMAIN environ \cup DOMAIN file.vars |->
        IF k \in DOMAIN environ THEN environ[k] ELSE file.vars[k]]

\* ConfigLoader.__init__(".env"): the file used, the environment after it,
\* whether the warning was printed and whether self.validator was set
LoaderInit(environ, cwdFile, bundleFile, isBundled) ==
    LET possible_paths ==
            IF isBundled THEN << cwdFile, bundleFile >> ELSE << cwdFile >>
        found == { i \in 1..Len(possible_paths) : possible_paths[i].exists }
    IN  IF found = {}
        THEN [environ |-> environ, warned |-> TRUE, validator |-> FALSE]
        ELSE LET first == CHOOSE i \in found : \A j \in found : i <= j
             IN  [environ |-> LoadDotenv(environ, possible_paths[first]),
                  warned |-> FALSE, validator |-> TRUE]

\* mutant: the path step tried before the boolean and integer steps
AutoCast_PathFirst(hasValidator, key, value, dirs, files) ==
    IF ~hasValidator THEN [res |-> Raise("AttributeError"), made |-> {}]
    ELSE IF key = K_LOG_LEVEL THEN [res |-> parse_log_level(value), made |-> {}]
    ELSE IF key = K_THEME_MODE THEN [res |-> parse_theme_mode(value), made |-> {}]
    ELSE IF \E w \in PathWords : Contains(key, w)
         THEN LET p == Resolve(ExpandUser(value))
              IN  IF HasSuffix(p)
                  THEN [res |-> validate_file_path(p, FALSE, dirs, files), made |-> {}]
                  ELSE validate_directory_path(p, TRUE, dirs, files)
    ELSE IF ensure_boolean(value).ok THEN [res |-> ensure_boolean(value), made |-> {}]
    ELSE IF ensure_positive_int(value).ok
         THEN [res |-> ensure_positive_int(value), made |-> {}]
    ELSE [res |-> ensure_string(value), made |-> {}]

\* ConfigLoader._auto_cast(key, value): result (or exception) and the
\* directories made on the way
AutoCast(hasValidator, key, value, dirs, files) ==
    IF ~hasValidator THEN [res |-> Raise("AttributeError"), made |-> {}]
    ELSE IF key = K_LOG_LEVEL THEN [res |-> parse_log_level(value), made |-> {}]
    ELSE IF key = K_THEME_MODE THEN [res |-> parse_theme_mode(value), made |-> {}]
    ELSE IF ensure_boolean(value).ok THEN [res |-> ensure_boolean(value), made |-> {}]
    ELSE IF ensure_positive_int(value).ok
         THEN [res |-> ensure_positive_int(value), made |-> {}]
    ELSE IF \E w \in PathWords : Contains(key, w)
         THEN LET p == Resolve(ExpandUser(value))
              IN  IF HasSuffix(p)
                  THEN [res |-> validate_file_path(p, FALSE, dirs, files), made |-> {}]
                  ELSE validate_directory_path(p, TRUE, dirs, files)
    ELSE [res |-> ensure_string(value), made |-> {}]

\* the "if key.isupper()" of load()
KeyQualifies(key) == StrIsUpper(key)

\* mutant: "except ValueError" in place of "except Exception"
CaughtByLoad_ValueErrorOnly(exc) == exc = "ValueError"

\* the exceptions "except Exception" catches
CaughtByLoad(exc) == exc \in {"ValueError", "AttributeError", "OSError"}

\* the "try: config[key] = self._auto_cast(key, value)
\*      except Exception: config[key] = value" of load()
CastOrRaw(hasValidator, key, value, dirs, files) ==
    LET c == AutoCast(hasValidator, key, value, dirs, files)
    IN  IF c.res.ok THEN c.res.val ELSE StrV(value)

\* ConfigLoader.load(): the map, and the directories made
Load(hasValidator, environ, dirs, files) ==
    LET keys == { k \in DOMAIN environ : KeyQualifies(k) }
    IN  [config |-> [k \in keys |-> CastOrRaw(hasValidator, k, environ[k], dirs, files)],
         raised |-> \E k \in keys :
                        LET c == AutoCast(hasValidator, k, environ[k], dirs, files)
                        IN  ~c.res.ok /\ ~CaughtByLoad(c.res.exc),
         made |-> UNION { AutoCast(hasValidator, k, environ[k], dirs, files).made : k \in keys }]


(***************************************************************************)
(* Inputs of the model                                                     *)
(***************************************************************************)
MaxEnvVars == 1
MaxGets    == 2
MaxRaceCalls == 3
MaxRawLen == 3

K_DEBUG    == <<"D","E","B","U","G">>
K_DATA_DIR == <<"D","A","T","A","_","D","I","R">>
K_OUT_FILE == <<"O","U","T","_","F","I","L","E">>
K_A_B      == <<"A","-","B">>
K_1_2      == <<"1","_","2">>
K_path     == <<"p","a","t","h">>

\* KEY=VALUE pairs the environment and the .env files are drawn from
EnvCases ==
    { << K_LOG_LEVEL, <<"d","e","b","u","g">> >>,
      << K_LOG_LEVEL, <<"v","e","r","b","o","s","e">> >>,
      << K_THEME_MODE, <<"D","a","r","k">> >>,
      << K_THEME_MODE, <<"b","l","u","e">> >>,
      << K_DEBUG, <<"1">> >>,
      << K_DEBUG, <<"4","2">> >>,
      << K_DEBUG, <<"h","i">> >>,
      << K_DATA_DIR, <<"t","r","u","e">> >>,
      << K_DATA_DIR, <<"7">> >>,
      << K_DATA_DIR, <<"o","/","s">> >>,
      << K_OUT_FILE, <<"a",".","t">> >>,
      << K_A_B, <<"1">> >>,
      << K_1_2, <<"x">> >>,
      << K_path, <<"x">> >> }

\* contents of the .env file in the current directory and in the bundle
DotenvContents ==
    { (K_DEBUG :> <<"n","o">>) @@ (K_THEME_MODE :> <<"l","i","g","h","t">>) }
BundleDotenvContents ==
    { (K_LOG_LEVEL :> <<"i","n","f","o">>) }

\* a file that may lie where DATA_DIR=o/s wants a directory
BlockingFiles == { <<"/","w","/","o">> }

(***************************************************************************)
(* State                                                                   *)
(***************************************************************************)
VARIABLES
    environ,          \* os.environ
    dotenvFile,       \* ./.env: NoFile or its variables
    bundleFile,       \* sys._MEIPASS/.env
    is_bundled,       \* the packaged-distribution marker (sys.frozen, sys._MEIPASS)
    fsDirs,           \* directories on disk
    fsFiles,          \* regular files on disk
    heap,             \* the dict objects made so far; a dict's identity is its index
    Config_instance,  \* Config._instance: 0 for None, or a heap index
    returned,         \* what the calls of Config.get() returned, in order: the dict,
                      \* and whether os.environ or ./.env had changed since the load
    loadCount,        \* how many times ConfigLoader.load() ran
    lastLoad,         \* the last run of ConfigLoader(".env").load(), for the claims
    threads,          \* per thread, where it is inside Config.get() and its locals
    tm,               \* ThemeManager._instance: its _initialized, config, current_theme
    lastEmit,         \* what the last ThemeManager call emitted on theme_changed
    Resources,        \* the class attributes of Resources
    diskAtIndex,      \* per category, the regular files that lay below its directory
                      \* when initialize last indexed it
    lastCall          \* the last call on Resources and its result, while the disk is
                      \* as that call saw it

cfgVars == << environ, dotenvFile, bundleFile, is_bundled, fsDirs, fsFiles, heap,
              Config_instance, returned, loadCount, lastLoad, threads >>

themeVars == << tm, lastEmit >>

resVars == << Resources, diskAtIndex, lastCall >>

vars == << cfgVars, themeVars, resVars >>

None == 0
\* None where a path is expected (no path is the empty string)
NoPath == << >>
NoLoad == [ran |-> FALSE]
Unset == <<"?">>
NoThemeManager == [initialized |-> FALSE, config |-> None, current_theme |-> Unset]
NoEmit == << >>
NoCall == [op |-> "none"]

\* a thread outside Config.get(): no call made yet, no locals
IdleThread == [pc |-> "idle", loader |-> NoLoad, loaded |-> None, called |-> FALSE,
               cached |-> None, quiet |-> FALSE, ret |-> None]
\* the two threads that call Config.get()
Threads == {"t1", "t2"}
NoThreads == [t \in Threads |-> IdleThread]

\* the class body of Resources
ResourcesClass ==
    [cfg |-> << >>, resources |-> << >>, base_path |-> NoPath,
     resource_key |-> <<"r","e","s","o","u","r","c","e","s">>,
     attrs |-> << >>, methods |-> {}]

Init ==
    /\ environ = << >>
    /\ dotenvFile = NoFile
    /\ is_bundled \in BOOLEAN
    /\ bundleFile \in {NoFile} \cup
                      (IF is_bundled THEN { FileOf(c) : c \in BundleDotenvContents } ELSE {})
    /\ fsDirs = BaseDirs(is_bundled)
    /\ fsFiles \in SUBSET BlockingFiles
    /\ heap = << >>
    /\ Config_instance = None
    /\ returned = << >>
    /\ loadCount = 0
    /\ lastLoad = NoLoad
    /\ threads = NoThreads
    /\ tm = NoThemeManager
    /\ lastEmit = NoEmit
    /\ Resources = ResourcesClass
    /\ diskAtIndex = << >>
    /\ lastCall = NoCall

(***************************************************************************)
(* The process environment, set by whoever starts or drives the program    *)
(***************************************************************************)
SetEnvFrom(cases) ==
    \E c \in cases :
        /\ c[1] \in DOMAIN environ \/ Cardinality(DOMAIN environ) < MaxEnvVars
        /\ environ' = [k \in DOMAIN environ \cup {c[1]} |->
                          IF k = c[1] THEN c[2] ELSE environ[k]]
        /\ UNCHANGED << dotenvFile, bundleFile, is_bundled, fsDirs, fsFiles, heap,
                        Config_instance, returned, loadCount, lastLoad, threads, themeVars, resVars >>

SetEnv == SetEnvFrom(EnvCases)

\* the .env file is written or removed between calls
ChangeDotenv ==
    /\ dotenvFile' \in ({NoFile} \cup { FileOf(c) : c \in DotenvContents }) \ {dotenvFile}
    /\ UNCHANGED << environ, bundleFile, is_bundled, fsDirs, fsFiles, heap,
                    Config_instance, returned, loadCount, lastLoad, threads, themeVars, resVars >>

(***************************************************************************)
(* Config.get()                                                            *)
(***************************************************************************)
\* loader = ConfigLoader(".env"); loader.load()
RunLoader(env0, cwdFile, bFile, isBundled, dirs, files) ==
    LET ld == LoaderInit(env0, cwdFile, bFile, isBundled)
        r  == Load(ld.validator, ld.environ, dirs, files)
    IN  [ran |-> TRUE, envBefore |-> env0, environ |-> ld.environ,
         cwdFile |-> cwdFile, warned |-> ld.warned, validator |-> ld.validator,
         config |-> r.config, raised |-> r.raised,
         dirsBefore |-> dirs, made |-> r.made]

Returned(map, changed) == [map |-> map, changed |-> changed]

\* mutant: the cache test dropped, every call loads
MustLoad_Always(instance) == TRUE

\* "if cls._instance is None"
MustLoad(instance) == instance = None

ConfigGet ==
    /\ Len(returned) < MaxGets
    /\ IF MustLoad(Config_instance)
       THEN LET run == RunLoader(environ, dotenvFile, bundleFile, is_bundled, fsDirs, fsFiles)
            IN  /\ environ' = run.environ
                /\ fsDirs' = fsDirs \cup run.made
                /\ loadCount' = loadCount + 1
                /\ lastLoad' = run
                /\ IF run.raised
                   THEN /\ returned' = Append(returned, Returned(None, FALSE))
                        /\ UNCHANGED << heap, Config_instance >>
                   ELSE /\ heap' = Append(heap, run.config)
                        /\ Config_instance' = Len(heap) + 1
                        /\ returned' = Append(returned, Returned(Len(heap) + 1, FALSE))
       ELSE /\ returned' = Append(returned,
                    Returned(Config_instance,
                             environ # lastLoad.environ \/ dotenvFile # lastLoad.cwdFile))
            /\ UNCHANGED << environ, fsDirs, heap, Config_instance, loadCount, lastLoad >>
    /\ UNCHANGED << dotenvFile, bundleFile, is_bundled, fsFiles, threads, themeVars, resVars >>

(***************************************************************************)
(* Config.get() called from several threads: the test of _instance, the    *)
(* construction of the loader, load(), the store to _instance and the      *)
(* read of _instance for the return value are separate steps               *)
(***************************************************************************)
RaceEnvCases == { << K_DEBUG, <<"1">> >> }

SetRaceEnv == SetEnvFrom(RaceEnvCases)

CallsStarted ==
    Len(returned) + Cardinality({ t \in Threads : threads[t].pc # "idle" })

\* "if cls._instance is None"
RaceTest(t) ==
    /\ threads[t].pc = "idle"
    /\ CallsStarted < MaxRaceCalls
    /\ threads' = [threads EXCEPT ![t] =
            [@ EXCEPT !.pc = IF MustLoad(Config_instance) THEN "construct" ELSE "return",
                      !.loaded = None, !.loader = NoLoad,
                      !.cached = Config_instance,
                      !.quiet = /\ Config_instance # None
                                /\ \A u \in Threads : threads[u].pc = "idle"]]
    /\ UNCHANGED << environ, dotenvFile, bundleFile, is_bundled, fsDirs, fsFiles, heap,
                    Config_instance, returned, loadCount, lastLoad, themeVars, resVars >>

\* loader = ConfigLoader(".env")
RaceConstruct(t) ==
    /\ threads[t].pc = "construct"
    /\ LET ld == LoaderInit(environ, dotenvFile, bundleFile, is_bundled)
       IN  /\ environ' = ld.environ
           /\ threads' = [threads EXCEPT ![t] =
                  [@ EXCEPT !.pc = "load",
                            !.loader = [ran |-> TRUE, envBefore |-> environ,
                                        cwdFile |-> dotenvFile, warned |-> ld.warned,
                                        validator |-> ld.validator]]]
    /\ UNCHANGED << dotenvFile, bundleFile, is_bundled, fsDirs, fsFiles, heap,
                    Config_instance, returned, loadCount, lastLoad, themeVars, resVars >>

\* loader.load(): the dict is made; an exception would end the call
RaceLoad(t) ==
    /\ threads[t].pc = "load"
    /\ LET r == Load(threads[t].loader.validator, environ, fsDirs, fsFiles)
       IN  /\ fsDirs' = fsDirs \cup r.made
           /\ loadCount' = loadCount + 1
           /\ lastLoad' = [ran |-> TRUE, envBefore |-> threads[t].loader.envBefore,
                           environ |-> environ, cwdFile |-> threads[t].loader.cwdFile,
                           warned |-> threads[t].loader.warned,
                           validator |-> threads[t].loader.validator,
                           config |-> r.config, raised |-> r.raised,
                           dirsBefore |-> fsDirs, made |-> r.made]
           /\ IF r.raised
              THEN /\ threads' = [threads EXCEPT ![t] = [@ EXCEPT !.pc = "idle"]]
                   /\ UNCHANGED heap
              ELSE /\ heap' = Append(heap, r.config)
                   /\ threads' = [threads EXCEPT ![t] =
                          [@ EXCEPT !.pc = "store", !.loaded = Len(heap) + 1]]
    /\ UNCHANGED << environ, dotenvFile, bundleFile, is_bundled, fsFiles,
                    Config_instance, returned, themeVars, resVars >>

\* cls._instance = <the dict load() returned>
RaceStore(t) ==
    /\ threads[t].pc = "store"
    /\ Config_instance' = threads[t].loaded
    /\ threads' = [threads EXCEPT ![t] = [@ EXCEPT !.pc = "return"]]
    /\ UNCHANGED << environ, dotenvFile, bundleFile, is_bundled, fsDirs, fsFiles, heap,
                    returned, loadCount, lastLoad, themeVars, resVars >>

\* mutant: the dict this call loaded is returned, not what _instance holds
ReturnValue_Loaded(instance, loaded) == IF loaded # None THEN loaded ELSE instance

\* "return cls._instance": _instance is read again
ReturnValue(instance, loaded) == instance

RaceReturn(t) ==
    /\ threads[t].pc = "return"
    /\ LET ret == ReturnValue(Config_instance, threads[t].loaded)
       IN  /\ returned' = Append(returned, Returned(ret, FALSE))
           /\ threads' = [threads EXCEPT ![t] =
                  [@ EXCEPT !.pc = "idle", !.called = TRUE, !.ret = ret]]
    /\ UNCHANGED << environ, dotenvFile, bundleFile, is_bundled, fsDirs, fsFiles, heap,
                    Config_instance, loadCount, lastLoad, themeVars, resVars >>

NextRace ==
    \/ SetRaceEnv
    \/ \E t \in Threads :
          RaceTest(t) \/ RaceConstruct(t) \/ RaceLoad(t) \/ RaceStore(t) \/ RaceReturn(t)

SpecRace == Init /\ [][NextRace]_vars

(***************************************************************************)
(* ThemeManager: the singleton, its config reference and current_theme     *)
(***************************************************************************)
T_LIGHT == <<"L","I","G","H","T">>
T_DARK  == <<"D","A","R","K">>
T_AUTO  == <<"A","U","T","O">>

\* the theme apply_theme() applies and emits; dark is is_system_dark_mode()
AppliedTheme(theme, dark) ==
    IF theme = T_AUTO THEN (IF dark THEN T_DARK ELSE T_LIGHT) ELSE theme

\* d[k] = v on a dict
DictSet(d, k, v) == [x \in DOMAIN d \cup {k} |-> IF x = k THEN v ELSE d[x]]

\* self.config["THEME_MODE"] = theme.name
SetThemeConfig(cfg, theme) == DictSet(cfg, K_THEME_MODE, StrV(theme))

\* the theme __init__ derives from config.get("THEME_MODE", "AUTO"): the member
\* itself, AppTheme(value) of a string, or Unset when AppTheme(value) raises
InitialTheme(cfg) ==
    IF K_THEME_MODE \notin DOMAIN cfg THEN T_AUTO
    ELSE IF cfg[K_THEME_MODE].kind = "enum" THEN cfg[K_THEME_MODE].tag
    ELSE IF cfg[K_THEME_MODE].kind = "str" /\ cfg[K_THEME_MODE].s \in AppThemeValues
         THEN cfg[K_THEME_MODE].s
    ELSE Unset

\* ThemeManager(config): config is None or the map Config.get() returned
ThemeManagerNew ==
    \E arg \in {None, Config_instance}, dark \in BOOLEAN :
        /\ IF tm.initialized
           THEN UNCHANGED << tm, heap, lastEmit >>
           ELSE LET fresh == arg = None \/ heap[arg] = << >>   \* "config or {}"
                    cfg   == IF fresh THEN << >> ELSE heap[arg]
                    ref   == IF fresh THEN Len(heap) + 1 ELSE arg
                    theme == InitialTheme(cfg)
                IN  /\ heap' = IF fresh THEN Append(heap, << >>) ELSE heap
                    /\ tm' = [initialized |-> TRUE, config |-> ref, current_theme |-> theme]
                    /\ lastEmit' = IF theme = Unset THEN NoEmit
                                   ELSE << AppliedTheme(theme, dark) >>
        /\ UNCHANGED << environ, dotenvFile, bundleFile, is_bundled, fsDirs, fsFiles,
                        Config_instance, returned, loadCount, lastLoad, threads, resVars >>

\* set_theme(theme) on the instance; without current_theme the comparison raises
SetThemeStep(theme, dark) ==
    /\ tm.initialized
    /\ IF tm.current_theme # Unset /\ theme # tm.current_theme
       THEN /\ tm' = [tm EXCEPT !.current_theme = theme]
            /\ heap' = [heap EXCEPT ![tm.config] = SetThemeConfig(heap[tm.config], theme)]
            /\ lastEmit' = << AppliedTheme(theme, dark) >>
       ELSE /\ lastEmit' = NoEmit
            /\ UNCHANGED << tm, heap >>
    /\ UNCHANGED << environ, dotenvFile, bundleFile, is_bundled, fsDirs, fsFiles,
                    Config_instance, returned, loadCount, lastLoad, threads >>

DoSetTheme(theme, dark) == SetThemeStep(theme, dark) /\ UNCHANGED resVars

SetTheme == \E theme \in AppThemeValues, dark \in BOOLEAN : DoSetTheme(theme, dark)

\* mutant: the toggle cycles through LIGHT, DARK and AUTO
ToggledTheme_Cycle(current, dark) ==
    IF current = T_LIGHT THEN T_DARK ELSE IF current = T_DARK THEN T_AUTO ELSE T_LIGHT

\* the theme toggle_theme() passes to set_theme()
ToggledTheme(current, dark) ==
    IF current = T_AUTO THEN (IF ~dark THEN T_DARK ELSE T_LIGHT)
    ELSE IF current = T_DARK THEN T_LIGHT ELSE T_DARK

ToggleTheme ==
    \E dark \in BOOLEAN : DoSetTheme(ToggledTheme(tm.current_theme, dark), dark)

\* the environment of the runs that exercise the ThemeManager
ThemeEnvCases ==
    { c \in EnvCases : c[1] = K_THEME_MODE } \cup
    { << K_THEME_MODE, T_AUTO >>, << K_DEBUG, <<"1">> >> }

SetThemeEnv == SetEnvFrom(ThemeEnvCases)

\* a call on the ThemeManager as its caller sees it: the theme before it, the
\* config before it, and the theme before the toggle that came just before
ThemeCall(op, theme) ==
    [op |-> op, theme |-> theme, before |-> tm.current_theme,
     cfgBefore |-> heap[tm.config],
     prior |-> IF lastCall.op = "toggle_theme" THEN << lastCall.before >> ELSE << >>]

SetThemeCalled ==
    \E theme \in AppThemeValues, dark \in BOOLEAN :
        /\ SetThemeStep(theme, dark)
        /\ lastCall' = ThemeCall("set_theme", theme)
        /\ UNCHANGED << Resources, diskAtIndex >>

ToggleThemeCalled ==
    \E dark \in BOOLEAN :
        /\ SetThemeStep(ToggledTheme(tm.current_theme, dark), dark)
        /\ lastCall' = ThemeCall("toggle_theme", ToggledTheme(tm.current_theme, dark))
        /\ UNCHANGED << Resources, diskAtIndex >>

\* the environment of the runs that toggle the theme: THEME_MODE only
SetToggleEnv == SetEnvFrom({ c \in EnvCases : c[1] = K_THEME_MODE })

Next == SetEnv \/ ChangeDotenv \/ ConfigGet

Spec == Init /\ [][Next]_vars

\* the configuration store with a ThemeManager working on its map
NextTheme == SetThemeEnv \/ ChangeDotenv \/ ConfigGet \/ ThemeManagerNew \/ SetTheme \/ ToggleTheme

SpecTheme == Init /\ [][NextTheme]_vars

\* set_theme and toggle_theme called on the ThemeManager of the configuration
NextToggle ==
    SetToggleEnv \/ ChangeDotenv \/ ConfigGet \/ ThemeManagerNew \/ SetThemeCalled
        \/ ToggleThemeCalled

SpecToggle == Init /\ [][NextToggle]_vars

(***************************************************************************)
(* Resources: the class attributes _cfg, _resources, _base_path,           *)
(* _resource_key, the attributes set with setattr and the generated        *)
(* get_all_in_<name> / get_in_<name> methods                               *)
(***************************************************************************)
ResPrefix   == <<"R","E","S","O","U","R","C","E","S","_">>
DefaultRoot == <<"r","e","s","o","u","r","c","e","s">>
BaseName    == <<"b","a","s","e">>

\* str.replace(old, "")
RECURSIVE RemoveAll(_, _)
RemoveAll(s, old) ==
    IF s = << >> THEN << >>
    ELSE IF StartsWith(s, old) THEN RemoveAll(SubSeq(s, Len(old) + 1, Len(s)), old)
    ELSE << Head(s) >> \o RemoveAll(Tail(s), old)

\* k.replace("RESOURCES_", "").lower()
CategoryName(k) == StrLower(RemoveAll(k, ResPrefix))

\* a dict as the sequence of its items, in insertion order
DictKeys(d) == { d[i][1] : i \in 1..Len(d) }
DictGet(d, k, default) ==
    IF k \in DictKeys(d) THEN d[CHOOSE i \in 1..Len(d) : d[i][1] = k][2] ELSE default

RECURSIVE DictFromItems(_, _)
DictFromItems(items, acc) ==
    IF items = << >> THEN acc
    ELSE LET k == Head(items)[1]
             v == Head(items)[2]
         IN  IF k \in DictKeys(acc)
             THEN DictFromItems(Tail(items),
                      [i \in 1..Len(acc) |-> IF acc[i][1] = k THEN << k, v >> ELSE acc[i]])
             ELSE DictFromItems(Tail(items), Append(acc, << k, v >>))

\* { k.replace("RESOURCES_", "").lower(): v for k, v in cfg.items()
\*   if k.startswith("RESOURCES_") }
CategoryConfig(items) ==
    DictFromItems(
        [i \in 1..Len(SelectSeq(items, LAMBDA kv : StartsWith(kv[1], ResPrefix))) |->
            LET kv == SelectSeq(items, LAMBDA x : StartsWith(x[1], ResPrefix))[i]
            IN  << CategoryName(kv[1]), kv[2] >>],
        << >>)

\* _get_base_path(): computed on first use, then cached
GetBasePath(reg, isBundled) ==
    IF reg.base_path = NoPath
    THEN JoinPath(IF isBundled THEN MEIPASS ELSE CWD, reg.resource_key)
    ELSE reg.base_path

\* mutant: only the files directly in the directory (glob, not rglob)
ListFiles_Flat(directory, dirs, files) ==
    { f \in files : /\ f # directory /\ directory \in Ancestors(f)
                    /\ Len(Parts(f)) = Len(Parts(directory)) + 1 }

\* _list_files(directory): every regular file below it, none when it is missing
ListFiles(directory, dirs, files) ==
    IF ~PathExists(directory, dirs, files) THEN {}
    ELSE { f \in files : f # directory /\ directory \in Ancestors(f) }

\* the regular files below a directory, as the disk holds them
FilesBelow(directory, files) ==
    { f \in files : StartsWith(f, directory \o <<"/">>) }

\* mutant: the whole relative value joined onto the root, not its last segment
CategoryDir_WholeValue(base, key, path, isBundled) ==
    IF isBundled THEN JoinPath(base, key) ELSE JoinPath(base, path)

\* abs_path before mkdir and resolve(): base_path / key in the bundle, else
\* the value itself when absolute, else base_path / Path(value).name
CategoryDir(base, key, path, isBundled) ==
    IF isBundled THEN JoinPath(base, key)
    ELSE IF IsAbsolute(path) THEN path
    ELSE JoinPath(base, PathName(path))

\* the body of "for key, path in cls._cfg.items()", until an exception
RECURSIVE InitLoop(_, _, _, _, _)
InitLoop(items, st, base, isBundled, files) ==
    IF items = << >> \/ st.raised THEN st
    ELSE LET key  == Head(items)[1]
             path == Head(items)[2]
         IN  IF key = BaseName
             THEN InitLoop(Tail(items),
                           [st EXCEPT !.reg.attrs = DictSet(st.reg.attrs, key, base)],
                           base, isBundled, files)
             ELSE LET joined == CategoryDir(base, key, path, isBundled)
                      mk == IF isBundled THEN Ok({})
                            ELSE Mkdir(Resolve(joined), st.dirs, files)
                      abs_path == Resolve(joined)
                  IN  IF ~mk.ok THEN [st EXCEPT !.raised = TRUE]
                      ELSE InitLoop(Tail(items),
                             [reg |-> [st.reg EXCEPT
                                         !.attrs = DictSet(st.reg.attrs, key, abs_path),
                                         !.resources = DictSet(st.reg.resources, key,
                                             ListFiles(abs_path, st.dirs \cup mk.val, files)),
                                         !.methods = st.reg.methods \cup {key}],
                              dirs |-> st.dirs \cup mk.val,
                              disk |-> DictSet(st.disk, key, FilesBelow(abs_path, files)),
                              raised |-> FALSE, logged |-> FALSE],
                             base, isBundled, files)

NoArg == [given |-> FALSE]
ArgOf(items) == [given |-> TRUE, items |-> items]

\* mutant: a call without cfg always takes the error branch
Initialize_NoArgRefused(reg, arg, isBundled, dirs, files, disk) ==
    IF ~arg.given
    THEN [reg |-> reg, dirs |-> dirs, disk |-> disk, raised |-> FALSE, logged |-> TRUE]
    ELSE LET reg1 == [reg EXCEPT
                        !.cfg = CategoryConfig(arg.items),
                        !.resource_key =
                            DictGet(CategoryConfig(arg.items), BaseName, DefaultRoot)]
             base == GetBasePath(reg1, isBundled)
             reg2 == [reg1 EXCEPT !.base_path = base]
         IN  InitLoop(reg2.cfg,
                      [reg |-> reg2, dirs |-> dirs, disk |-> disk,
                       raised |-> FALSE, logged |-> FALSE],
                      base, isBundled, files)

\* Resources.initialize(cfg): the registry and the directories after it, whether
\* the error was logged, whether it raised
Initialize(reg, arg, isBundled, dirs, files, disk) ==
    IF ~arg.given /\ reg.cfg = << >>
    THEN [reg |-> reg, dirs |-> dirs, disk |-> disk, raised |-> FALSE, logged |-> TRUE]
    ELSE LET reg1 == IF arg.given
                     THEN [reg EXCEPT
                             !.cfg = CategoryConfig(arg.items),
                             !.resource_key =
                                 DictGet(CategoryConfig(arg.items), BaseName, DefaultRoot)]
                     ELSE reg
             base == GetBasePath(reg1, isBundled)
             reg2 == [reg1 EXCEPT !.base_path = base]
         IN  InitLoop(reg2.cfg,
                      [reg |-> reg2, dirs |-> dirs, disk |-> disk,
                       raised |-> FALSE, logged |-> FALSE],
                      base, isBundled, files)

\* mutant: never raises
ResolveMiss_Silent(suppress) == Ok(NoPath)

\* what get_in_<name> does when no location exists
ResolveMiss(suppress) == IF suppress THEN Ok(NoPath) ELSE Raise("FileNotFoundError")

\* mutant: the packaged root is tried in both modes
ResolveIn_AlwaysRoot(reg, name, path, suppress, isBundled, dirs, files) ==
    LET p == Resolve(path)
        candidate == Resolve(JoinPath(reg.attrs[name], path))
        bundled_candidate == Resolve(JoinPath(GetBasePath(reg, isBundled), path))
    IN  IF PathExists(p, dirs, files) THEN [res |-> Ok(p), reg |-> reg]
        ELSE IF PathExists(candidate, dirs, files) THEN [res |-> Ok(candidate), reg |-> reg]
        ELSE IF PathExists(bundled_candidate, dirs, files)
             THEN [res |-> Ok(bundled_candidate), reg |-> reg]
        ELSE [res |-> ResolveMiss(suppress), reg |-> reg]

\* get_in_<name>(path, suppress): the result, and the registry after the call
ResolveIn(reg, name, path, suppress, isBundled, dirs, files) ==
    LET p == Resolve(path)
        candidate == Resolve(JoinPath(reg.attrs[name], path))
        bundled_candidate == Resolve(JoinPath(GetBasePath(reg, isBundled), path))
        regC == [reg EXCEPT !.base_path = GetBasePath(reg, isBundled)]
    IN  IF PathExists(p, dirs, files) THEN [res |-> Ok(p), reg |-> reg]
        ELSE IF PathExists(candidate, dirs, files) THEN [res |-> Ok(candidate), reg |-> reg]
        ELSE IF isBundled /\ PathExists(bundled_candidate, dirs, files)
             THEN [res |-> Ok(bundled_candidate), reg |-> regC]
        ELSE [res |-> ResolveMiss(suppress), reg |-> IF isBundled THEN regC ELSE reg]

\* get_all_in_<name>()
ListAllIn(reg, name) == IF name \in DOMAIN reg.resources THEN reg.resources[name] ELSE {}

(***************************************************************************)
(* The resource registry in use                                            *)
(***************************************************************************)
K_RES_ICONS == ResPrefix \o <<"I","C","O","N","S">>
K_RES_DATA  == ResPrefix \o <<"D","A","T","A">>
K_RES_BASE  == ResPrefix \o <<"B","A","S","E">>

N_icons == <<"i","c","o","n","s">>
N_data  == <<"d","a","t","a">>

\* the cfg arguments initialize is called with
InitArgs ==
    { NoArg,
      ArgOf(<< << K_RES_ICONS, <<"a","/","i","c","o","n","s">> >> >>),
      ArgOf(<< << K_RES_ICONS, <<"/","x","/","i","c","o","n","s">> >>,
               << K_RES_DATA, N_data >> >>),
      ArgOf(<< << K_RES_BASE, <<"r","2">> >>, << K_RES_DATA, N_data >> >>),
      ArgOf(<< << K_DEBUG, <<"1">> >> >>) }

\* the regular files that may lie on disk: below the category directories
IconFiles(root) ==
    { root \o <<"/">> \o DefaultRoot \o <<"/">> \o N_icons \o <<"/","l",".","p">>,
      root \o <<"/">> \o DefaultRoot \o <<"/">> \o N_icons \o <<"/","s","/","e",".","p">> }

IndexedFiles(isBundled) ==
    IF isBundled THEN IconFiles(MEIPASS)
    ELSE IconFiles(CWD) \cup { <<"/","x","/">> \o N_icons \o <<"/","l",".","p">> }

\* ... and where get_in_<name> looks: the current directory, the category
\* directory, the resource root
ResolvableFiles(isBundled) ==
    { CWD \o <<"/","l",".","p">>,
      (IF isBundled THEN MEIPASS ELSE CWD) \o <<"/">> \o DefaultRoot \o <<"/">> \o N_icons
          \o <<"/","l",".","p">>,
      (IF isBundled THEN MEIPASS ELSE CWD) \o <<"/">> \o DefaultRoot \o <<"/","n",".","p">> }

\* the names and paths get_in_<name> is asked for
ResolveNames ==
    { <<"l",".","p">>, <<"n",".","p">>,
      CWD \o <<"/">> \o DefaultRoot \o <<"/","n",".","p">>, <<"q">> }

\* the cfg arguments of the runs that exercise get_in_<name>
ResolveInitArgs ==
    { ArgOf(<< << K_RES_ICONS, <<"a","/","i","c","o","n","s">> >> >>),
      ArgOf(<< << K_RES_ICONS, <<"/","x","/","i","c","o","n","s">> >>,
               << K_RES_DATA, N_data >> >>) }

InitRes ==
    /\ environ = << >>
    /\ dotenvFile = NoFile
    /\ bundleFile = NoFile
    /\ is_bundled \in BOOLEAN
    /\ fsDirs = BaseDirs(is_bundled)
    /\ fsFiles = {}
    /\ heap = << >>
    /\ Config_instance = None
    /\ returned = << >>
    /\ loadCount = 0
    /\ lastLoad = NoLoad
    /\ threads = NoThreads
    /\ tm = NoThemeManager
    /\ lastEmit = NoEmit
    /\ Resources = ResourcesClass
    /\ diskAtIndex = << >>
    /\ lastCall = NoCall

\* a regular file appears on disk, in directories that hold it
CreateFileFrom(universe) ==
    \E f \in universe \ fsFiles :
        /\ f \notin fsDirs /\ Ancestors(f) \cap fsFiles = {}
        /\ fsFiles' = fsFiles \cup {f}
        /\ lastCall' = NoCall
        /\ UNCHANGED << environ, dotenvFile, bundleFile, is_bundled, fsDirs, heap,
                        Config_instance, returned, loadCount, lastLoad, threads, themeVars,
                        Resources, diskAtIndex >>

CreateIndexedFile == CreateFileFrom(IndexedFiles(is_bundled))
CreateResolvableFile == CreateFileFrom(ResolvableFiles(is_bundled))

\* a regular file is removed
DeleteFile ==
    \E f \in fsFiles :
        /\ fsFiles' = fsFiles \ {f}
        /\ lastCall' = NoCall
        /\ UNCHANGED << environ, dotenvFile, bundleFile, is_bundled, fsDirs, heap,
                        Config_instance, returned, loadCount, lastLoad, threads, themeVars,
                        Resources, diskAtIndex >>

\* Resources.initialize(cfg) and Resources.initialize()
InitializeWith(args) ==
    \E arg \in args :
        LET r == Initialize(Resources, arg, is_bundled, fsDirs, fsFiles, diskAtIndex)
        IN  /\ Resources' = r.reg
            /\ fsDirs' = r.dirs
            /\ diskAtIndex' = r.disk
            /\ lastCall' = [op |-> "initialize", arg |-> arg, logged |-> r.logged,
                            raised |-> r.raised, before |-> Resources,
                            dirsBefore |-> fsDirs,
                            unchanged |-> r.reg = Resources /\ r.dirs = fsDirs]
            /\ UNCHANGED << environ, dotenvFile, bundleFile, is_bundled, fsFiles, heap,
                            Config_instance, returned, loadCount, lastLoad, threads, themeVars >>

ResourcesInitialize == InitializeWith(InitArgs)
InitializeForResolve == InitializeWith(ResolveInitArgs)

\* Resources.get_in_<name>(path, suppress)
GetIn ==
    \E name \in Resources.methods, path \in ResolveNames, suppress \in BOOLEAN :
        LET r == ResolveIn(Resources, name, path, suppress, is_bundled, fsDirs, fsFiles)
        IN  /\ Resources' = r.reg
            /\ lastCall' = [op |-> "resolve", name |-> name, path |-> path,
                            suppress |-> suppress, res |-> r.res,
                            unchanged |-> r.reg = Resources]
            /\ UNCHANGED << cfgVars, themeVars, diskAtIndex >>

\* Resources.get_all_in_<name>()
GetAllIn ==
    \E name \in Resources.methods :
        /\ lastCall' = [op |-> "list", name |-> name, res |-> ListAllIn(Resources, name)]
        /\ UNCHANGED << cfgVars, themeVars, Resources, diskAtIndex >>

\* Resources.get_all()
GetAll ==
    /\ lastCall' = [op |-> "get_all", res |-> Resources.resources]
    /\ UNCHANGED << cfgVars, themeVars, Resources, diskAtIndex >>

\* the registry built, rebuilt and listed while the disk changes
NextRes == CreateIndexedFile \/ DeleteFile \/ ResourcesInitialize \/ GetAllIn \/ GetAll

SpecRes == InitRes /\ [][NextRes]_vars

\* names resolved against a registry while the disk changes
NextResolve == CreateResolvableFile \/ DeleteFile \/ InitializeForResolve \/ GetIn

SpecResolve == InitRes /\ [][NextResolve]_vars

(***************************************************************************)
(* Resources.initialize on keys that repeat the prefix or differ in case   *)
(***************************************************************************)
MaxCfgKeys == 2

\* the keys of the cfg mappings: RESOURCES_ICONS, RESOURCES_icons,
\* RESOURCES_A_RESOURCES_B and X_RESOURCES_DATA
NamedKeys == { K_RES_ICONS, ResPrefix \o N_icons,
               ResPrefix \o <<"A","_">> \o ResPrefix \o <<"B">>,
               <<"X","_">> \o K_RES_DATA }

\* cfg mappings of at most MaxCfgKeys distinct keys, in every order
NamedInitArgs ==
    { ArgOf(items) :
        items \in { q \in UNION { [1..n -> NamedKeys \X { <<"d">> }] : n \in 1..MaxCfgKeys } :
                      \A i, j \in 1..Len(q) : i # j => q[i][1] # q[j][1] } }

InitializeNamed == InitializeWith(NamedInitArgs)

NextNamed == InitializeNamed \/ GetAllIn \/ GetAll

SpecNamed == InitRes /\ [][NextNamed]_vars

(***************************************************************************)
(* ConfigValidator called directly: the raw strings it is given            *)
(***************************************************************************)
\* every string of at most MaxRawLen characters over an alphabet
StringsOver(alphabet) == UNION { [1..n -> alphabet] : n \in 0..MaxRawLen }

\* a word in every mix of upper and lower case
CaseVariants(word) ==
    { [i \in 1..Len(word) |-> IF mask[i] THEN UpperChar(word[i]) ELSE LowerChar(word[i])] :
        mask \in [1..Len(word) -> BOOLEAN] }

BooleanInputs ==
    StringsOver({"o", "n", "N", "f", "F", "1", " "})
    \cup UNION { CaseVariants(w) : w \in TruthyTokens \cup FalsyTokens }
    \cup { <<"m","a","y","b","e">>, <<"t","r","u">>, <<"y","e","s","!">>, <<"2">> }

IntegerInputs ==
    StringsOver({"0", "1", "2", "-", "+", "_", " "})
    \cup { <<"a","b","c">>, <<"4","2">>, <<"-","3">>, <<"4",".","0">>, <<"1","a">>,
           <<"0","x","1","0">> }

LogLevelInputs ==
    UNION { CaseVariants(w) : w \in LogLevelValues }
    \cup { <<"v","e","r","b","o","s","e">>, << >>, <<"d","e","b","u","g"," ">>,
           <<"W","A","R","N">>, <<"I","N","F","O","S">>, <<"1","0">> }

ThemeModeInputs ==
    UNION { CaseVariants(w) : w \in AppThemeValues }
    \cup { <<"b","l","u","e">>, << >>, <<" ","d","a","r","k">>, <<"L","I","G","H">>,
           <<"a","u","t","o","s">>, <<"s","y","s","t","e","m">> }

\* a regular file that may exist, and the paths validate_file_path is given
ValidatorFiles == { CWD \o <<"/","a",".","t">> }

FilePathInputs ==
    { <<"a",".","t">>, CWD \o <<"/","a",".","t">>, <<".","/","a",".","t">>,
      <<"b",".","t">>, CWD, <<".">>, <<"o">>, <<"/","n","/","c",".","t">> }

CreateValidatorFile == CreateFileFrom(ValidatorFiles)

\* ConfigValidator.ensure_boolean(raw, ...)
CallEnsureBoolean ==
    \E raw \in BooleanInputs :
        /\ lastCall.op = "none"
        /\ lastCall' = [op |-> "ensure_boolean", value |-> raw, res |-> ensure_boolean(raw)]
        /\ UNCHANGED << cfgVars, themeVars, Resources, diskAtIndex >>

\* ConfigValidator.ensure_positive_int(raw, ...)
CallEnsurePositiveInt ==
    \E raw \in IntegerInputs :
        /\ lastCall.op = "none"
        /\ lastCall' = [op |-> "ensure_positive_int", value |-> raw,
                        res |-> ensure_positive_int(raw)]
        /\ UNCHANGED << cfgVars, themeVars, Resources, diskAtIndex >>

\* ConfigValidator.parse_log_level(raw)
CallParseLogLevel ==
    \E raw \in LogLevelInputs :
        /\ lastCall.op = "none"
        /\ lastCall' = [op |-> "parse_log_level", value |-> raw, res |-> parse_log_level(raw)]
        /\ UNCHANGED << cfgVars, themeVars, Resources, diskAtIndex >>

\* ConfigValidator.parse_theme_mode(raw)
CallParseThemeMode ==
    \E raw \in ThemeModeInputs :
        /\ lastCall.op = "none"
        /\ lastCall' = [op |-> "parse_theme_mode", value |-> raw,
                        res |-> parse_theme_mode(raw)]
        /\ UNCHANGED << cfgVars, themeVars, Resources, diskAtIndex >>

\* ConfigValidator.validate_file_path(raw, must_exist)
CallValidateFilePath ==
    \E raw \in FilePathInputs, must_exist \in BOOLEAN :
        /\ lastCall.op = "none"
        /\ lastCall' = [op |-> "validate_file_path", value |-> raw,
                        must_exist |-> must_exist,
                        res |-> validate_file_path(raw, must_exist, fsDirs, fsFiles)]
        /\ UNCHANGED << cfgVars, themeVars, Resources, diskAtIndex >>

\* the caller has taken the result and may call again
ValidatorReturn ==
    /\ lastCall.op # "none"
    /\ lastCall' = NoCall
    /\ UNCHANGED << cfgVars, themeVars, Resources, diskAtIndex >>

NextValidator ==
    \/ CallEnsureBoolean \/ CallEnsurePositiveInt \/ CallParseLogLevel
    \/ CallParseThemeMode \/ CallValidateFilePath \/ ValidatorReturn
    \/ CreateValidatorFile \/ DeleteFile

SpecValidator == InitRes /\ [][NextValidator]_vars

(***************************************************************************)
(* Claims                                                                  *)
(***************************************************************************)
\* the maps Config.get() returned
ReturnedMaps == { returned[i].map : i \in 1..Len(returned) }

\* C1: over any sequence of Config.get() calls, with os.environ and ./.env
\* changing in between, load() runs exactly once, on the first call, and every
\* call returns the same dict, holding what that load computed.
C1_LoadOnce ==
    /\ loadCount = (IF returned = << >> THEN 0 ELSE 1)
    /\ \A i \in 1..Len(returned) :
        /\ returned[i].map # None
        /\ returned[i].map = returned[1].map
        /\ heap[returned[i].map] = lastLoad.config

\* a second call made after the environment changed, where a fresh load would
\* have computed another map
C1_Witness ==
    /\ Len(returned) >= 2
    /\ returned[2].changed
    /\ returned[2].map = returned[1].map
    /\ RunLoader(environ, dotenvFile, bundleFile, is_bundled, fsDirs, fsFiles).config
          # heap[returned[2].map]

\* the category a declaration names: the prefix stripped, the rest lower-cased
C2_Declared(arg) ==
    { StrLower(SubSeq(arg.items[i][1], Len(ResPrefix) + 1, Len(arg.items[i][1]))) :
        i \in { j \in 1..Len(arg.items) : StartsWith(arg.items[j][1], ResPrefix) } }
    \ {BaseName}

\* C2: after initialize(cfg), the indexed categories (the keys of get_all(), the
\* categories with accessors) are exactly the non-base categories cfg declares.
C2_Replaced ==
    lastCall.op = "initialize" /\ lastCall.arg.given /\ ~lastCall.raised =>
        /\ DOMAIN Resources.resources = C2_Declared(lastCall.arg)
        /\ Resources.methods = C2_Declared(lastCall.arg)

C4_Own  == Resolve(lastCall.path)
C4_InCategory == Resolve(JoinPath(Resources.attrs[lastCall.name], lastCall.path))
C4_InRoot == Resolve(JoinPath(Resources.base_path, lastCall.path))
C4_Exists(p) == PathExists(p, fsDirs, fsFiles)

\* C4: get_in_<name>(path) returns the first location that exists among the
\* path itself, the path in the category directory and, in packaged mode only,
\* the path in the packaged resource root.
C4_Order ==
    lastCall.op = "resolve" =>
        /\ C4_Exists(C4_Own) => lastCall.res = Ok(C4_Own)
        /\ ~C4_Exists(C4_Own) /\ C4_Exists(C4_InCategory)
              => lastCall.res = Ok(C4_InCategory)
        /\ ~C4_Exists(C4_Own) /\ ~C4_Exists(C4_InCategory) /\ is_bundled
              /\ C4_Exists(C4_InRoot)
              => lastCall.res = Ok(C4_InRoot)
        /\ ~C4_Exists(C4_Own) /\ ~C4_Exists(C4_InCategory) /\ ~is_bundled
              => lastCall.res \in {Ok(NoPath), Raise("FileNotFoundError")}

\* source-tree mode: the name exists in the resource root only, and is not found
C4_Witness ==
    /\ lastCall.op = "resolve" /\ ~is_bundled
    /\ ~C4_Exists(C4_Own) /\ ~C4_Exists(C4_InCategory) /\ C4_Exists(C4_InRoot)
    /\ ~lastCall.res.ok

\* no step of the search finds a location
C5_NotFound ==
    /\ lastCall.op = "resolve"
    /\ ~C4_Exists(C4_Own) /\ ~C4_Exists(C4_InCategory)
    /\ ~(is_bundled /\ C4_Exists(C4_InRoot))

\* C5: when no step finds a location, get_in_<name> raises FileNotFoundError
\* unless suppress is set, and then returns None; the registry is as before.
C5_Miss ==
    C5_NotFound =>
        /\ lastCall.res = (IF lastCall.suppress THEN Ok(NoPath)
                           ELSE Raise("FileNotFoundError"))
        /\ lastCall.unchanged

\* packaged mode, all three steps tried, the error raised
C5_Witness ==
    C5_NotFound /\ is_bundled /\ ~lastCall.suppress /\ ~lastCall.res.ok

\* a key of the form [A-Z0-9_]+
IsEnvIdentifier(k) ==
    /\ k # << >>
    /\ \A i \in 1..Len(k) : IsUpperChar(k[i]) \/ IsDigitChar(k[i]) \/ k[i] = "_"

IsPathKey(k) == \E w \in PathWords : Contains(k, w)

\* the cascade of the specification: the first step that succeeds, in order
C6_Expected(k, v, dirs, files) ==
    IF k = K_LOG_LEVEL THEN parse_log_level(v)
    ELSE IF k = K_THEME_MODE THEN parse_theme_mode(v)
    ELSE IF ensure_boolean(v).ok THEN ensure_boolean(v)
    ELSE IF ensure_positive_int(v).ok THEN ensure_positive_int(v)
    ELSE IF IsPathKey(k)
         THEN IF HasSuffix(Resolve(ExpandUser(v)))
              THEN validate_file_path(Resolve(ExpandUser(v)), FALSE, dirs, files)
              ELSE validate_directory_path(Resolve(ExpandUser(v)), TRUE, dirs, files).res
    ELSE ensure_string(v)

\* the keys whose cascade reaches the path step
C6_PathStepKeys(env0) ==
    { k \in DOMAIN env0 :
        /\ k \notin {K_LOG_LEVEL, K_THEME_MODE}
        /\ ~ensure_boolean(env0[k]).ok /\ ~ensure_positive_int(env0[k]).ok
        /\ IsPathKey(k) }

\* C6: for every key of the form [A-Z0-9_]+ in the map, load() stores the result of the first step of
\* the cascade that succeeds (a boolean token is a Boolean even when it is a
\* positive integer or the key names a path), and only a key that reaches the
\* path step has a directory made.
C6_Cascade ==
    lastLoad.ran =>
        /\ \A k \in { q \in DOMAIN lastLoad.config : IsEnvIdentifier(q) } :
              LET e == C6_Expected(k, lastLoad.environ[k], lastLoad.dirsBefore, fsFiles)
              IN  e.ok => lastLoad.config[k] = e.val
        /\ lastLoad.made \subseteq
              UNION { Ancestors(Resolve(ExpandUser(lastLoad.environ[k]))) :
                        k \in C6_PathStepKeys(lastLoad.environ) }

\* C7: load() never raises because of a value: a key whose cascade raises holds
\* the raw string, and every key that passed the key test has an entry.
C7_RawFallback ==
    lastLoad.ran =>
        /\ ~lastLoad.raised
        /\ \A k \in DOMAIN lastLoad.environ :
              KeyQualifies(k) =>
                /\ k \in DOMAIN lastLoad.config
                /\ ~AutoCast(lastLoad.validator, k, lastLoad.environ[k],
                             lastLoad.dirsBefore, fsFiles).res.ok
                     => lastLoad.config[k] = StrV(lastLoad.environ[k])

\* LOG_LEVEL=verbose is stored raw by a loader that has its validator, next to
\* a key that was cast
C7_Witness ==
    /\ lastLoad.ran /\ lastLoad.validator
    /\ K_LOG_LEVEL \in DOMAIN lastLoad.config
    /\ lastLoad.config[K_LOG_LEVEL] = StrV(<<"v","e","r","b","o","s","e">>)
    /\ \E k \in DOMAIN lastLoad.config : lastLoad.config[k].kind # "str"

\* C8: the keys of the map are exactly the environment keys of the form
\* [A-Z0-9_]+.
C8_KeySet ==
    lastLoad.ran =>
        DOMAIN lastLoad.config = { k \in DOMAIN lastLoad.environ : IsEnvIdentifier(k) }

\* no candidate .env file existed when the loader was constructed
C9_NoCandidate ==
    lastLoad.ran /\ ~lastLoad.cwdFile.exists /\ (is_bundled => ~bundleFile.exists)

\* C9: with no candidate file, load() does not abort, the warning is printed,
\* the environment gains no variable, and the map has one entry per key of the
\* form [A-Z0-9_]+ of the ambient environment.
C9_NoFile ==
    C9_NoCandidate =>
        /\ ~lastLoad.raised
        /\ lastLoad.warned
        /\ lastLoad.environ = lastLoad.envBefore
        /\ DOMAIN lastLoad.config = { k \in DOMAIN lastLoad.envBefore : IsEnvIdentifier(k) }

\* C10: once Config.get() has returned the map, it keeps the entries the load
\* computed, also when it is the config of the ThemeManager and set_theme or
\* toggle_theme are called: no value or kind changes, no key is added.
C10_Immutable ==
    \A m \in ReturnedMaps \ {None} : heap[m] = lastLoad.config

\* what set_theme does write: only the THEME_MODE entry of the ThemeManager's
\* dict, when the theme changes, with the new theme's name as a string; every
\* other entry keeps its value and no other key appears.
ThemeModeOnlyWritten ==
    [][ \A m \in 1..Len(heap) :
          /\ DOMAIN heap'[m] \subseteq DOMAIN heap[m] \cup {K_THEME_MODE}
          /\ \A k \in DOMAIN heap[m] \ {K_THEME_MODE} :
                k \in DOMAIN heap'[m] /\ heap'[m][k] = heap[m][k]
          /\ heap'[m] # heap[m] =>
                /\ m = tm.config
                /\ tm'.current_theme # tm.current_theme
                /\ heap'[m][K_THEME_MODE] = StrV(tm'.current_theme) ]_vars

\* the location a path value names: Path(value).expanduser().resolve()
C11_Location(k) == Resolve(ExpandUser(lastLoad.environ[k]))

\* no regular file lies at the location or above it
C11_Free(p) == Ancestors(p) \cap fsFiles = {}

\* C11: for a key holding PATH, DIR or FILE whose value is neither a boolean
\* token nor a positive integer, the map value is the absolute normalized
\* path; without a suffix the directory and its parents exist after load(),
\* with a suffix nothing is made on disk.
C11_PathValue ==
    lastLoad.ran =>
        /\ \A k \in C6_PathStepKeys(lastLoad.environ) \cap DOMAIN lastLoad.config :
              C11_Free(C11_Location(k)) =>
                /\ lastLoad.config[k] = StrV(C11_Location(k))
                /\ ~HasSuffix(C11_Location(k)) =>
                      Ancestors(C11_Location(k)) \subseteq lastLoad.dirsBefore \cup lastLoad.made
        /\ lastLoad.made \subseteq
              UNION { Ancestors(C11_Location(k)) :
                        k \in { q \in C6_PathStepKeys(lastLoad.environ) :
                                  ~HasSuffix(C11_Location(q)) } }

\* initialize was called with no categories (no argument, or a mapping without
\* a RESOURCES_ key) while no configuration was cached
C12_NoCategories ==
    /\ lastCall.op = "initialize"
    /\ lastCall.before.cfg = << >>
    /\ lastCall.arg.given =>
          \A i \in 1..Len(lastCall.arg.items) :
              ~StartsWith(lastCall.arg.items[i][1], ResPrefix)

\* C12: initialize with no categories and nothing cached logs the error,
\* raises nothing and leaves the registry and the disk as they were.
C12_ErrorLogged ==
    C12_NoCategories =>
        /\ lastCall.logged
        /\ ~lastCall.raised
        /\ lastCall.unchanged

\* the resource-root name the cfg of the last initialize configures, or the
\* default name
C13_RootName == DictGet(CategoryConfig(lastCall.arg.items), BaseName, DefaultRoot)

\* the roots the specification allows: in the bundle, the embedded resource
\* directory; otherwise the current directory joined with the root name
C13_Roots ==
    IF is_bundled
    THEN { JoinPath(MEIPASS, DefaultRoot), JoinPath(MEIPASS, C13_RootName) }
    ELSE { JoinPath(CWD, C13_RootName) }

\* C13: after every initialize(cfg), a re-invocation with another root name
\* included, the root used for the categories and exposed as the base
\* category is the one this cfg and the mode determine.
C13_RootOfThisCall ==
    lastCall.op = "initialize" /\ lastCall.arg.given /\ ~lastCall.raised =>
        /\ Resources.base_path \in C13_Roots
        /\ BaseName \in DictKeys(Resources.cfg) => Resources.attrs[BaseName] \in C13_Roots

\* the directory the specification gives a category, from the root in use
C14_Directory(name, value) ==
    IF is_bundled THEN Resources.base_path \o <<"/">> \o name
    ELSE IF value[1] = "/" THEN value
    ELSE Resources.base_path \o <<"/">> \o Parts(value)[Len(Parts(value))]

\* C14: every category of the cfg other than base gets, in the bundle, root /
\* name with nothing made on disk; in the source tree the value itself when
\* absolute, else root / last segment of the value, and the directory exists
\* with its parents after the call.
C14_CategoryDirectory ==
    lastCall.op = "initialize" /\ ~lastCall.logged /\ ~lastCall.raised =>
        /\ \A i \in 1..Len(Resources.cfg) :
              LET name  == Resources.cfg[i][1]
                  value == Resources.cfg[i][2]
              IN  name # BaseName =>
                    /\ Resources.attrs[name] = C14_Directory(name, value)
                    /\ ~is_bundled => Ancestors(Resources.attrs[name]) \subseteq fsDirs
        /\ is_bundled => fsDirs = lastCall.dirsBefore

\* source tree: a relative value of two segments was given, its directory was
\* missing and was made under the root
C14_Witness ==
    /\ lastCall.op = "initialize" /\ ~lastCall.raised /\ ~is_bundled
    /\ \E i \in 1..Len(Resources.cfg) :
          /\ Len(Parts(Resources.cfg[i][2])) = 2
          /\ ~IsAbsolute(Resources.cfg[i][2])
          /\ Resources.attrs[Resources.cfg[i][1]] \notin lastCall.dirsBefore
          /\ Resources.attrs[Resources.cfg[i][1]] \in fsDirs

\* no call of Config.get() is in progress
C15_Quiescent == \A t \in Threads : threads[t].pc = "idle"

\* C15: once the calls of threads that raced have returned, one map is cached:
\* the one the call that returned last received, a map some load made, at most
\* one load per thread having run; and every call started while a map was
\* cached and no call was in progress returned that map.
C15_OneCached ==
    /\ C15_Quiescent /\ returned # << >> =>
          /\ Config_instance # None
          /\ Config_instance = returned[Len(returned)].map
          /\ Config_instance \in 1..Len(heap)
          /\ loadCount = Len(heap) /\ loadCount <= Cardinality(Threads)
    /\ \A t \in Threads :
          threads[t].pc = "idle" /\ threads[t].called /\ threads[t].quiet =>
              /\ threads[t].ret = threads[t].cached
              /\ threads[t].ret = Config_instance

\* the interleaving of the claim: two loads ran, the first two calls returned
\* different dicts, and a later call returned the cached one of the two
C15_Witness ==
    /\ C15_Quiescent /\ Len(returned) >= 3
    /\ loadCount = 2
    /\ returned[1].map # returned[2].map
    /\ returned[3].map = Config_instance
    /\ Config_instance \in { returned[1].map, returned[2].map }

\* two characters that are the same up to letter case
C16_SameLetter(a, b) ==
    a = b \/ \E i \in 1..Len(LowerAlpha) : {a, b} = {LowerAlpha[i], UpperAlpha[i]}

\* a raw string that is a word of the set, compared case-insensitively
C16_Matches(raw, words) ==
    \E w \in words :
        Len(raw) = Len(w) /\ \A i \in 1..Len(w) : C16_SameLetter(raw[i], w[i])

\* C16: ensure_boolean gives True exactly for true, yes, 1, on and False
\* exactly for false, no, 0, off, in any letter case, and raises ValueError
\* for every other string.
C16_BooleanPartition ==
    lastCall.op = "ensure_boolean" =>
        lastCall.res =
            (IF C16_Matches(lastCall.value,
                    { <<"t","r","u","e">>, <<"y","e","s">>, <<"1">>, <<"o","n">> })
             THEN Ok(BoolV(TRUE))
             ELSE IF C16_Matches(lastCall.value,
                    { <<"f","a","l","s","e">>, <<"n","o">>, <<"0">>, <<"o","f","f">> })
             THEN Ok(BoolV(FALSE))
             ELSE Raise("ValueError"))

\* a token in mixed case was accepted
C16_Witness ==
    /\ lastCall.op = "ensure_boolean"
    /\ lastCall.value = <<"O","f","F">>
    /\ lastCall.res = Ok(BoolV(FALSE))

\* the base-10 representation of an integer: an optional sign, then digits
C17_IsDecimal(raw) ==
    LET d == IF raw # << >> /\ raw[1] \in {"+", "-"} THEN Tail(raw) ELSE raw
    IN  d # << >> /\ \A i \in 1..Len(d) : IsDigitChar(d[i])

C17_Value(raw) ==
    IF raw[1] = "-" THEN 0 - DigitsValue(Tail(raw))
    ELSE IF raw[1] = "+" THEN DigitsValue(Tail(raw))
    ELSE DigitsValue(raw)

\* C17: ensure_positive_int returns n exactly when the raw string is the
\* base-10 representation of an integer n > 0, and raises ValueError for every
\* other string.
C17_PositiveInteger ==
    lastCall.op = "ensure_positive_int" =>
        lastCall.res =
            (IF C17_IsDecimal(lastCall.value) /\ C17_Value(lastCall.value) > 0
             THEN Ok(IntV(C17_Value(lastCall.value)))
             ELSE Raise("ValueError"))

\* what int() accepts: blanks around, an optional sign, then digits with
\* single underscores between them; core is the part between the blanks
C17_Cores(raw) ==
    { SubSeq(raw, i, j) : i \in 1..Len(raw), j \in 1..Len(raw) } \ {<< >>}

C17_IsCoreOf(core, raw) ==
    \E i \in 1..Len(raw), j \in 1..Len(raw) :
        /\ i <= j /\ core = SubSeq(raw, i, j)
        /\ raw[i] # " " /\ raw[j] # " "
        /\ \A k \in 1..Len(raw) : (k < i \/ k > j) => raw[k] = " "

C17_Body(core) == IF core[1] \in {"+", "-"} THEN Tail(core) ELSE core

C17_IntLiteral(core) ==
    LET b == C17_Body(core)
    IN  /\ b # << >>
        /\ \A k \in 1..Len(b) :
              \/ IsDigitChar(b[k])
              \/ b[k] = "_" /\ 1 < k /\ k < Len(b) /\ IsDigitChar(b[k - 1])
                           /\ IsDigitChar(b[k + 1])

C17_LiteralValue(core) ==
    LET n == DigitsValue(SelectSeq(C17_Body(core), IsDigitChar))
    IN  IF core[1] = "-" THEN 0 - n ELSE n

\* C17, amended: ensure_positive_int returns n exactly when int() accepts the
\* raw string (blanks around, an optional sign, digits with single
\* underscores between them) and its value n is positive; it raises
\* ValueError for every other string and never returns a value <= 0.
C17_IntAccepted ==
    lastCall.op = "ensure_positive_int" =>
        /\ \A core \in C17_Cores(lastCall.value) :
              C17_IsCoreOf(core, lastCall.value) /\ C17_IntLiteral(core)
                  /\ C17_LiteralValue(core) > 0
              => lastCall.res = Ok(IntV(C17_LiteralValue(core)))
        /\ (~\E core \in C17_Cores(lastCall.value) :
                C17_IsCoreOf(core, lastCall.value) /\ C17_IntLiteral(core)
                  /\ C17_LiteralValue(core) > 0)
              => lastCall.res = Raise("ValueError")
        /\ lastCall.res.ok => lastCall.res.val.n > 0

\* "1_2" gave 12
C17_Witness ==
    /\ lastCall.op = "ensure_positive_int"
    /\ lastCall.value = <<"1","_","2">>
    /\ lastCall.res = Ok(IntV(12))

\* the tag names of LogLevel
C18_Tags ==
    { <<"D","E","B","U","G">>, <<"I","N","F","O">>, <<"W","A","R","N","I","N","G">>,
      <<"E","R","R","O","R">>, <<"C","R","I","T","I","C","A","L">> }

\* C18: parse_log_level returns the LogLevel tag whose name the raw string
\* spells in any letter case, and raises ValueError for every other string.
C18_LogLevel ==
    lastCall.op = "parse_log_level" =>
        /\ \A tag \in C18_Tags :
              C16_Matches(lastCall.value, {tag}) => lastCall.res = Ok(EnumV("LogLevel", tag))
        /\ ~C16_Matches(lastCall.value, C18_Tags) => lastCall.res = Raise("ValueError")

\* "debug" gave DEBUG
C18_Witness ==
    /\ lastCall.op = "parse_log_level"
    /\ lastCall.value = <<"d","e","b","u","g">>
    /\ lastCall.res = Ok(EnumV("LogLevel", <<"D","E","B","U","G">>))

\* the tag names of the theme enumeration
C19_Tags == { <<"L","I","G","H","T">>, <<"D","A","R","K">>, <<"A","U","T","O">> }

\* C19: parse_theme_mode returns the theme tag whose name the raw string
\* spells in any letter case, and raises ValueError for every other string.
C19_ThemeMode ==
    lastCall.op = "parse_theme_mode" =>
        /\ \A tag \in C19_Tags :
              C16_Matches(lastCall.value, {tag}) => lastCall.res = Ok(EnumV("AppTheme", tag))
        /\ ~C16_Matches(lastCall.value, C19_Tags) => lastCall.res = Raise("ValueError")

\* "Dark" gave DARK
C19_Witness ==
    /\ lastCall.op = "parse_theme_mode"
    /\ lastCall.value = <<"D","a","r","k">>
    /\ lastCall.res = Ok(EnumV("AppTheme", <<"D","A","R","K">>))

\* C20: validate_file_path with must_exist fails exactly when the path is not
\* an existing regular file; without must_exist it never fails; a returned
\* path is absolute.
C20_FilePath ==
    lastCall.op = "validate_file_path" =>
        /\ lastCall.must_exist => (lastCall.res.ok <=> Resolve(lastCall.value) \in fsFiles)
        /\ ~lastCall.must_exist => lastCall.res.ok
        /\ lastCall.res.ok => IsAbsolute(lastCall.res.val.s)

(***************************************************************************)
(* C21: initialize derives each category name by removing only the leading *)
(* prefix from the key and lower-casing the rest: keys without the leading *)
(* prefix are ignored, a later occurrence of the prefix text stays in the  *)
(* name, and distinct declared keys give distinct names.                   *)
(***************************************************************************)
C21_Declared(items) ==
    { items[i][1] : i \in { j \in 1..Len(items) : StartsWith(items[j][1], ResPrefix) } }

C21_Name(k) == StrLower(SubSeq(k, Len(ResPrefix) + 1, Len(k)))

C21_CategoryNames ==
    lastCall.op = "initialize" /\ lastCall.arg.given =>
        LET declared == C21_Declared(lastCall.arg.items)
        IN  /\ DictKeys(Resources.cfg) = { C21_Name(k) : k \in declared }
            /\ Cardinality(DictKeys(Resources.cfg)) = Cardinality(declared)

\* a key that does not start with the prefix declares nothing
NonPrefixedIgnored ==
    lastCall.op = "initialize" /\ lastCall.arg.given =>
        Len(Resources.cfg) <= Cardinality(C21_Declared(lastCall.arg.items))

(***************************************************************************)
(* C22: for the same resulting process environment load() stores the same  *)
(* typed value for every key whether or not a configuration file was found *)
(* at construction: without a file a value is still cast by the cascade    *)
(* and not stored as a raw string.                                         *)
(***************************************************************************)
C22_WithFile(env1, dirs, files) == Load(TRUE, env1, dirs, files).config

C22_SameWithoutFile ==
    lastLoad.ran =>
        lastLoad.config = C22_WithFile(lastLoad.environ, lastLoad.dirsBefore, fsFiles)

(***************************************************************************)
(* C23: load() changes the file system only by making directories for keys *)
(* that contain PATH, DIR or FILE and whose value is not a boolean token,  *)
(* not a positive integer and has no suffix; for every other key, and when *)
(* an earlier step of the cascade succeeds, nothing is created, modified   *)
(* or removed; load() never changes the process environment.               *)
(***************************************************************************)
C23_IsBooleanToken(v) == StrLower(v) \in TruthyTokens \cup FalsyTokens

C23_CreatingKeys(env1) ==
    { k \in DOMAIN env1 :
        /\ \E w \in PathWords : Contains(k, w)
        /\ ~C23_IsBooleanToken(env1[k])
        /\ ~ensure_positive_int(env1[k]).ok
        /\ ~HasSuffix(env1[k]) }

\* the directories those keys name, with their parents
C23_MayCreate(env1) ==
    UNION { Ancestors(Resolve(ExpandUser(env1[k]))) : k \in C23_CreatingKeys(env1) }

C23_LoadFrame ==
    [][loadCount' # loadCount =>
          /\ fsFiles' = fsFiles
          /\ fsDirs \subseteq fsDirs'
          /\ fsDirs' \ fsDirs \subseteq C23_MayCreate(lastLoad'.environ)
          /\ environ' = lastLoad'.environ]_vars

\* a load made the directory of DATA_DIR=o/s, next to a second key that made
\* none
C23_Witness ==
    /\ lastLoad.ran
    /\ lastLoad.made # {} /\ lastLoad.made \subseteq fsDirs
    /\ lastLoad.made \cap lastLoad.dirsBefore = {}
    /\ Cardinality(DOMAIN lastLoad.config) = 2

(***************************************************************************)
(* C24: initialize without cfg, after an initialize(cfg) that declared     *)
(* categories, reuses the cached configuration: no error is logged, the    *)
(* categories and their directories stay the same, and the snapshot of     *)
(* every category of that configuration becomes the regular files that lie *)
(* below its directory at the time of this call.                           *)
(***************************************************************************)
C24_NoArgAfterCfg ==
    /\ lastCall.op = "initialize"
    /\ ~lastCall.arg.given
    /\ lastCall.before.cfg # << >>

C24_Categories == DictKeys(Resources.cfg) \ {BaseName}

C25_Other(theme) == IF theme = T_LIGHT THEN T_DARK ELSE T_LIGHT

C25_SameThemeSet ==
    /\ lastCall.op = "set_theme" /\ lastCall.theme = lastCall.before
    /\ lastCall.before \in AppThemeValues

====
